---- MODULE Spec2Model ----
(***************************************************************************)
(* Model of notebooks/notebook.ipynb: a Jupyter notebook that retrieves    *)
(* Landsat-9 and Sentinel-2 scenes from Google Earth Engine, computes NDVI *)
(* over a polygon around Beaune, adds map layers, and fills a six-row      *)
(* table of wine scores with the mean NDVI of each year's best scene.      *)
(*                                                                         *)
(* Numbers the server computes as floating point are modelled as exact     *)
(* rationals <<n, d>> (d > 0, lowest terms); Python's None / a masked      *)
(* pixel is the pair <<0, 0>>.  Strings the notebook slices or formats are *)
(* sequences of one-character strings.                                     *)
(***************************************************************************)
EXTENDS Integers, Sequences, FiniteSets, TLC

VARIABLES
    pc,                  \* position of the kernel in the notebook
    pending,             \* remote requests issued and not yet answered
    image_2022,          \* cell 2
    landsat_date,        \* cell 3
    landsat_cloud,       \* cell 3
    landsat_8_data_2022, \* cell 4
    landsat_ndvi,        \* cell 7
    sentinel_2022,       \* cell 9
    sentinel_2022_data,  \* cell 9
    sentinel_date,       \* cell 10
    sentinel_cloud,      \* cell 10
    sentinel_ndvi,       \* cell 13
    burgundy_map,        \* layers of the Landsat map
    sentinel_map,        \* layers of the Sentinel map
    split,               \* left/right layers and labels of the split map
    wine_scores,         \* the DataFrame, a sequence of rows
    images,              \* the dictionary of the loop
    ndvi_map,            \* layers of the per-year map
    loop,                \* the loop's variables: index, image, ndvi, ...
    stdout,              \* lines printed
    collection,          \* retrieval harness: the catalogue queried
    retrieved            \* retrieval harness: what a retrieval returned

vars == <<pc, pending, image_2022, landsat_date, landsat_cloud,
          landsat_8_data_2022, landsat_ndvi, sentinel_2022, sentinel_2022_data,
          sentinel_date, sentinel_cloud, sentinel_ndvi, burgundy_map,
          sentinel_map, split, wine_scores, images, ndvi_map, loop, stdout,
          collection, retrieved>>

---------------------------------------------------------------------------
(* Rational arithmetic, as the server's per-pixel arithmetic.              *)

None == <<0, 0>>

Abs(x) == IF x < 0 THEN -x ELSE x

RECURSIVE Gcd(_, _)
Gcd(a, b) == IF b = 0 THEN a ELSE Gcd(b, a % b)

Norm(n, d) ==
    LET g == Gcd(Abs(n), Abs(d))
        s == IF d < 0 THEN -1 ELSE 1
    IN  IF d = 0 THEN None ELSE <<s * (n \div g), s * (d \div g)>>

Rat(n, d) == Norm(n, d)

IsNone(r) == r[2] = 0

RMul(a, b) ==
    LET g1 == Gcd(Abs(a[1]), b[2])
        g2 == Gcd(Abs(b[1]), a[2])
    IN  Norm((a[1] \div g1) * (b[1] \div g2), (a[2] \div g2) * (b[2] \div g1))

RAdd(a, b) ==
    LET g == Gcd(a[2], b[2])
    IN  Norm(a[1] * (b[2] \div g) + b[1] * (a[2] \div g), (a[2] \div g) * b[2])

RNeg(a) == <<-a[1], a[2]>>

RSub(a, b) == RAdd(a, RNeg(b))

\* ee.Image.divide: "returning 0 for division by 0"
RDiv(a, b) ==
    IF b[1] = 0 THEN <<0, 1>>
    ELSE RMul(a, IF b[1] < 0 THEN <<-b[2], -b[1]>> ELSE <<b[2], b[1]>>)

RLess(a, b) == a[1] * b[2] < b[1] * a[2]

\* Python round(x, 2), in hundredths (ties go up here; Python rounds the
\* binary float, ties to even)
Round2(r) == (200 * r[1] + r[2]) \div (2 * r[2])

---------------------------------------------------------------------------
(* Strings                                                                 *)

Digits == <<"0", "1", "2", "3", "4", "5", "6", "7", "8", "9">>

DigitVal(c) == (CHOOSE i \in 1..10 : Digits[i] = c) - 1

\* the decimal digit of n at the place p (1, 10, 100, ...)
DigitAt(n, p) == Digits[((n \div p) % 10) + 1]

\* str(n) for a four-digit year
Str(n) == << DigitAt(n, 1000), DigitAt(n, 100), DigitAt(n, 10), DigitAt(n, 1) >>

\* two digits, zero padded
Str2(n) == << DigitAt(n, 10), DigitAt(n, 1) >>

\* s[k:] of Python
Slice(s, k) == SubSeq(s, k + 1, Len(s))

\* ee.Date(...).format("YYYY-MM-dd") of a day number YYYYMMDD
FormatDate(day) ==
    Str(day \div 10000) \o <<"-">> \o Str2((day \div 100) % 100)
        \o <<"-">> \o Str2(day % 100)

\* the day number YYYYMMDD a date string 'YYYY-MM-DD' denotes
ParseDate(s) ==
    (DigitVal(s[1]) * 1000 + DigitVal(s[2]) * 100 + DigitVal(s[3]) * 10
        + DigitVal(s[4])) * 10000
    + (DigitVal(s[6]) * 10 + DigitVal(s[7])) * 100
    + DigitVal(s[9]) * 10 + DigitVal(s[10])

---------------------------------------------------------------------------
(* Bounds of the model                                                     *)

\* pixels of a scene's raster, numbered 1..NPix
NPix == 3

\* the pixels 1..NClip lie inside clip_area, the others outside
NClip == 2

\* longest catalogue the retrieval harness queries
MaxImages == 2

\* longest catalogue a notebook run queries
RunImages == 2

Pixels == 1..NPix

---------------------------------------------------------------------------
(* Constants of the notebook                                               *)

\* study_date = ('2022-08-01', '2022-08-31')
study_date ==
    << <<"2", "0", "2", "2", "-", "0", "8", "-", "0", "1">>,
       <<"2", "0", "2", "2", "-", "0", "8", "-", "3", "1">> >>

\* clip_area, as the set of raster pixels the polygon contains
clip_area == {p \in Pixels : p <= NClip}

years == <<2017, 2018, 2019, 2020, 2021, 2022>>

\* a table in which every year lists the same score
scores_all_equal ==
    [r \in 1..6 |-> [Year |-> 2016 + r, WineScore |-> <<93, 1>>, MeanNDVI |-> None,
                     PhotoDate |-> <<>>]]


\* Wine Score of a row: None is <<0, 0>>
scores ==
    << [Year |-> 2017, WineScore |-> <<93, 1>>, MeanNDVI |-> None, PhotoDate |-> <<>>],
       [Year |-> 2018, WineScore |-> <<92, 1>>, MeanNDVI |-> None, PhotoDate |-> <<>>],
       [Year |-> 2019, WineScore |-> <<95, 1>>, MeanNDVI |-> None, PhotoDate |-> <<>>],
       [Year |-> 2020, WineScore |-> <<94, 1>>, MeanNDVI |-> None, PhotoDate |-> <<>>],
       [Year |-> 2021, WineScore |-> None, MeanNDVI |-> None, PhotoDate |-> <<>>],
       [Year |-> 2022, WineScore |-> None, MeanNDVI |-> None, PhotoDate |-> <<>>] >>

landsat_nat ==
    [name |-> "Natural Color (4,3,2)",
     properties |-> [bands |-> <<"SR_B4", "SR_B3", "SR_B2">>,
                     min |-> <<0, 1>>, max |-> <<3, 10>>]]

landsat_IR ==
    [name |-> "False Color (5,4,3)",
     properties |-> [bands |-> <<"SR_B5", "SR_B4", "SR_B3">>,
                     min |-> <<0, 1>>, max |-> <<1, 2>>]]

sentinel_nat ==
    [name |-> "Natural Color (4,3,2)",
     properties |-> [bands |-> <<"B4", "B3", "B2">>,
                     min |-> <<0, 1>>, max |-> <<3, 10>>]]

sentinel_IR ==
    [name |-> "False Color (8,4,3)",
     properties |-> [bands |-> <<"B8", "B4", "B3">>,
                     min |-> <<0, 1>>, max |-> <<1, 2>>]]

vis_ndvi ==
    [name |-> "NDVI",
     properties |-> [min |-> <<-1, 5>>, max |-> <<1, 1>>,
                     palette |-> <<"FFFFFF", "CE7E45", "DF923D", "F1B555",
                                   "FCD163", "99B718", "74A901", "66A000",
                                   "529400", "3E8601", "207401", "056201",
                                   "004C00", "023B01", "012E01", "011D01",
                                   "011301">>]]

---------------------------------------------------------------------------
(* Earth Engine objects.  A scene is a record                              *)
(*   [id, day, covers, props, bands]                                       *)
(* day: acquisition day YYYYMMDD; covers: its footprint contains           *)
(* study_area; props: its metadata; bands: band name -> raster, a raster   *)
(* being a function Pixels -> rational, None where the pixel is masked.    *)
(* NullImage is what first() returns on an empty collection; every         *)
(* expression built on it fails when the server evaluates it.              *)

NullImage == [null |-> TRUE]

IsNull(img) == "null" \in DOMAIN img

\* ImageCollection.filterDate(start, end): start inclusive, end exclusive
filterDate(coll, start, end) ==
    SelectSeq(coll, LAMBDA im : ParseDate(start) <= im.day /\ im.day < ParseDate(end))

\* ImageCollection.filterBounds(study_area)
filterBounds(coll) == SelectSeq(coll, LAMBDA im : im.covers)

\* x put into the ascending sequence s behind the elements that are not larger
RECURSIVE Insert(_, _, _)
Insert(x, s, prop) ==
    IF s = <<>> THEN <<x>>
    ELSE IF x.props[prop] < s[1].props[prop] THEN <<x>> \o s
    ELSE <<s[1]>> \o Insert(x, Tail(s), prop)

\* a sort that leaves the collection in catalogue order
sort_nothing(coll, prop) == coll

\* ImageCollection.sort(prop): ascending, equal elements keep their order
RECURSIVE sort(_, _)
sort(coll, prop) ==
    IF coll = <<>> THEN <<>>
    ELSE Insert(coll[Len(coll)], sort(SubSeq(coll, 1, Len(coll) - 1), prop), prop)

\* ImageCollection.first()
first(coll) == IF coll = <<>> THEN NullImage ELSE coll[1]

\* a clip that leaves the image as it is
clip_nothing(img) == img

\* Image.clip(clip_area): pixels outside the polygon become masked
clip(img) ==
    IF IsNull(img) THEN NullImage
    ELSE [img EXCEPT !.bands =
            [b \in DOMAIN img.bands |->
                [p \in Pixels |-> IF p \in clip_area THEN img.bands[b][p] ELSE None]]]

\* Image.select(band): the image with that band alone
select(img, band) ==
    IF IsNull(img) \/ band \notin DOMAIN img.bands THEN NullImage
    ELSE [img EXCEPT !.bands = [b \in {band} |-> img.bands[band]]]

\* the band of a single-band image
TheBand(img) == CHOOSE b \in DOMAIN img.bands : TRUE

\* a pixel of a binary operation: masked where either input is masked
PixOp(op, a, b) ==
    IF IsNone(a) \/ IsNone(b) THEN None
    ELSE CASE op = "add" -> RAdd(a, b)
           [] op = "subtract" -> RSub(a, b)
           [] op = "multiply" -> RMul(a, b)
           [] op = "divide" -> RDiv(a, b)

\* Image.add / subtract / divide of two single-band images: the result
\* keeps the band name of the left operand
ImageOp(op, x, y) ==
    IF IsNull(x) \/ IsNull(y) THEN NullImage
    ELSE [x EXCEPT !.bands =
            [b \in DOMAIN x.bands |->
                [p \in Pixels |-> PixOp(op, x.bands[b][p], y.bands[TheBand(y)][p])]]]

\* Image.multiply / add / divide by a number, on every band
ScalarOp(op, x, k) ==
    IF IsNull(x) THEN NullImage
    ELSE [x EXCEPT !.bands =
            [b \in DOMAIN x.bands |->
                [p \in Pixels |-> PixOp(op, x.bands[b][p], k)]]]

\* Image.rename(name) of a single-band image
rename(img, name) ==
    IF IsNull(img) THEN NullImage
    ELSE [img EXCEPT !.bands = [b \in {name} |-> img.bands[TheBand(img)]]]

\* whether a band name matches the regular expression of a select()
Matches(regex, band) ==
    CASE regex = "SR_B." -> band \in {"SR_B4", "SR_B5"}
      [] regex = "ST_B.*" -> band \in {"ST_B10"}
      [] OTHER -> FALSE

\* Image.select(regex): the bands whose name matches
selectRegex(img, regex) ==
    IF IsNull(img) THEN NullImage
    ELSE [img EXCEPT !.bands =
            [b \in {c \in DOMAIN img.bands : Matches(regex, c)} |-> img.bands[b]]]

\* Image.addBands(src, None, True): the bands of src overwrite those of img
addBands(img, src) ==
    IF IsNull(img) \/ IsNull(src) THEN NullImage
    ELSE [img EXCEPT !.bands =
            [b \in DOMAIN img.bands \cup DOMAIN src.bands |->
                IF b \in DOMAIN src.bands THEN src.bands[b] ELSE img.bands[b]]]

RECURSIVE SumOver(_, _)
SumOver(raster, S) ==
    IF S = {} THEN <<0, 1>>
    ELSE LET p == CHOOSE q \in S : TRUE
         IN  RAdd(raster[p], SumOver(raster, S \ {p}))

\* a mean that counts the masked pixels of the region as zeros
MeanOverAll(raster, region) ==
    RDiv(SumOver(raster, {p \in region : ~IsNone(raster[p])}), <<Cardinality(region), 1>>)

\* ee.Reducer.mean() over the unmasked pixels of a region; null when none
MeanOver(raster, region) ==
    LET S == {p \in region : ~IsNone(raster[p])}
    IN  IF S = {} THEN None ELSE RDiv(SumOver(raster, S), <<Cardinality(S), 1>>)

\* Image.reduceRegion(reducer = mean, geometry = clip_area): band -> mean
reduceRegion(img) ==
    IF IsNull(img) THEN NullImage
    ELSE [b \in DOMAIN img.bands |-> MeanOver(img.bands[b], clip_area)]

---------------------------------------------------------------------------
(* The notebook's expressions                                              *)

\* cell 2: image_2022
LandsatRetrieval(cat) ==
    clip(first(sort(filterBounds(filterDate(cat, study_date[1], study_date[2])),
                    "CLOUD_COVER")))

\* cell 9: sentinel_2022
SentinelRetrieval(cat) ==
    clip(first(sort(filterBounds(filterDate(cat, study_date[1], study_date[2])),
                    "HIGH_PROBA_CLOUDS_PERCENTAGE")))

\* cell 39: image of the iteration for year
LoopRetrieval(cat, year) ==
    clip(first(sort(filterBounds(filterDate(cat,
                                            Str(year) \o Slice(study_date[1], 4),
                                            Str(year) \o Slice(study_date[2], 4))),
                    "HIGH_PROBA_CLOUDS_PERCENTAGE")))

\* geemap.image_props(img): the scene's properties and its IMAGE_DATE
image_props(img) ==
    IF IsNull(img) THEN NullImage
    ELSE [k \in DOMAIN img.props \cup {"IMAGE_DATE"} |->
            IF k = "IMAGE_DATE" THEN FormatDate(img.day) ELSE img.props[k]]

\* cell 3: landsat_cloud, in thousandths of a percent
LandsatCloudFigure(img) == image_props(img)["CLOUD_COVER_LAND"]

\* round(x, 2) of a figure held in thousandths: hundredths
RoundCloud(x) == Round2(<<x, 1000>>)

\* cell 10: sentinel_cloud, in hundredths of a percent
SentinelCloudFigure(img) == RoundCloud(image_props(img)["CLOUDY_PIXEL_PERCENTAGE"])

\* cell 39: the figure printed for a year, in hundredths of a percent
LoopCloudFigure(img) == RoundCloud(image_props(img)["CLOUD_COVERAGE_ASSESSMENT"])

\* cell 4
applyScaleFactors(image) ==
    LET opticalBands ==
            ScalarOp("add",
                     ScalarOp("multiply", selectRegex(image, "SR_B."), Rat(275, 10000000)),
                     Rat(-2, 10))
        thermalBands ==
            ScalarOp("add",
                     ScalarOp("multiply", selectRegex(image, "ST_B.*"), Rat(341802, 100000000)),
                     Rat(149, 1))
    IN  addBands(addBands(image, opticalBands), thermalBands)

\* a difference divided by the near-infrared band alone
NdviOverNir(NIR, red) == ImageOp("divide", ImageOp("subtract", NIR, red), NIR)

\* NIR.subtract(red).divide(NIR.add(red))
NdviOf(NIR, red) ==
    ImageOp("divide", ImageOp("subtract", NIR, red), ImageOp("add", NIR, red))

\* cell 7
LandsatNdvi(image) ==
    rename(NdviOf(select(image, "SR_B5"), select(image, "SR_B4")), "Landsat NDVI")

\* cell 9: sentinel_2022_data, and image_data of the loop
SentinelData(image) == ScalarOp("divide", image, Rat(10000, 1))

\* cell 13
SentinelNdvi(data) ==
    rename(NdviOf(select(data, "B8"), select(data, "B4")), "Sentinel NDVI")

\* cell 39: ndvi of an iteration
LoopNdvi(image_data) == NdviOf(select(image_data, "B8"), select(image_data, "B4"))

\* cell 39: mean_ndvi.get("B8"); Missing when the dictionary has no such key
Missing == <<0, -1>>

LoopMean(ndvi) ==
    LET mean_ndvi == reduceRegion(ndvi)
    IN  IF "B8" \in DOMAIN mean_ndvi THEN mean_ndvi["B8"] ELSE Missing

\* Map.add_ee_layer / ee_tile_layer: the layer a map receives
Layer(ee_object, vis_params, name) ==
    [ee_object |-> ee_object, vis_params |-> vis_params, name |-> name]

---------------------------------------------------------------------------
(* The catalogues the server may hold.  Digital numbers are valid ones     *)
(* (0 is the fill value of both products and is masked by the server), so  *)
(* NIR + Red is never 0 on an unmasked pixel.  Bands no expression of the  *)
(* notebook computes with (B2, B3, SR_B2, SR_B3, SR_B6, ...) are left out. *)

\* cloud figures, in thousandths of a percent
CloudValues == {4, 1000}

\* what the outputs stored in the notebook show of its last run: for each
\* year the day of the photo, the printed CLOUD_COVERAGE_ASSESSMENT (in
\* thousandths of a percent) and the Mean NDVI of the table (in millionths)
Recorded ==
    << [year |-> 2017, day |-> 20170821, cloud |-> 5670, ndvi |-> 609520],
       [year |-> 2018, day |-> 20180816, cloud |-> 21990, ndvi |-> 534868],
       [year |-> 2019, day |-> 20190821, cloud |-> 1660, ndvi |-> 620653],
       [year |-> 2020, day |-> 20200820, cloud |-> 30, ndvi |-> 513974],
       [year |-> 2021, day |-> 20210810, cloud |-> 5120, ndvi |-> 657839],
       [year |-> 2022, day |-> 20220810, cloud |-> 0, ndvi |-> 538299] >>

RecordedOf(year) == Recorded[CHOOSE i \in DOMAIN Recorded : Recorded[i].year = year]

\* the Landsat-9 photo of the last run: 2022-08-07, CLOUD_COVER_LAND 0.02
RecordedLandsat == [day |-> 20220807, cloud |-> 20]

\* a raster given by a rule; "nir_of" and "red_of" give every pixel the
\* NDVI u millionths
RasterOf(kind, u) ==
    [p \in Pixels |->
        CASE kind = "nir_of" -> <<1000000 + u, 1>>
          [] kind = "red_of" -> <<1000000 - u, 1>>
          [] kind = "nir" -> <<3000, 1>>
          [] kind = "red" -> <<500 * p, 1>>
          [] kind = "nir_gap" -> IF p = 2 THEN None ELSE <<2000 + 500 * p, 1>>
          [] kind = "red_gap" -> IF p = 2 THEN None ELSE <<1000, 1>>
          [] kind = "l_nir" -> <<12000 + 1000 * p, 1>>
          [] kind = "l_red" -> <<8000, 1>>
          [] kind = "l_nir_gap" -> IF p = 1 THEN None ELSE <<20000, 1>>
          [] kind = "l_red_gap" -> IF p = 1 THEN None ELSE <<9000 + 1000 * p, 1>>
          [] kind = "l_thermal" -> <<40000, 1>>
          [] OTHER -> None]

SentinelProps(high, cloudy, assessment) ==
    [HIGH_PROBA_CLOUDS_PERCENTAGE |-> high, CLOUDY_PIXEL_PERCENTAGE |-> cloudy,
     CLOUD_COVERAGE_ASSESSMENT |-> assessment]

LandsatProps(cover, land) == [CLOUD_COVER |-> cover, CLOUD_COVER_LAND |-> land]

\* the scenes a notebook run may meet in the catalogue of a year:
\*   1  the photo the last run found (its sort key is not shown by the
\*      notebook: it won the sort, so it is the least one here)
\*   2  another usable photo, with a masked pixel
\*   3  a photo whose pixels are all masked
\*   4  a photo taken on the 31st
\*   5  a photo that does not cover study_area
RunKinds == 1..5

SentinelScene(year, k) ==
    [id |-> k,
     day |-> CASE k = 1 -> RecordedOf(year).day
               [] k = 2 -> year * 10000 + 805
               [] k = 3 -> year * 10000 + 801
               [] k = 4 -> year * 10000 + 831
               [] OTHER -> year * 10000 + 815,
     covers |-> k # 5,
     props |-> CASE k = 1 -> SentinelProps(0, RecordedOf(year).cloud, RecordedOf(year).cloud)
                 [] k = 2 -> SentinelProps(4, 1000, 4)
                 [] k = 3 -> SentinelProps(1000, 1000, 1000)
                 [] OTHER -> SentinelProps(0, 0, 0),
     bands |-> CASE k = 1 -> [B8 |-> RasterOf("nir_of", RecordedOf(year).ndvi),
                              B4 |-> RasterOf("red_of", RecordedOf(year).ndvi)]
                 [] k = 2 -> [B8 |-> RasterOf("nir_gap", 0), B4 |-> RasterOf("red_gap", 0)]
                 [] k = 3 -> [B8 |-> RasterOf("masked", 0), B4 |-> RasterOf("masked", 0)]
                 [] OTHER -> [B8 |-> RasterOf("nir", 0), B4 |-> RasterOf("red", 0)]]

LandsatScene(k) ==
    [id |-> k,
     day |-> CASE k = 1 -> RecordedLandsat.day
               [] k = 2 -> 20220823
               [] k = 3 -> 20220801
               [] k = 4 -> 20220831
               [] OTHER -> 20220815,
     covers |-> k # 5,
     props |-> CASE k = 1 -> LandsatProps(0, RecordedLandsat.cloud)
                 [] k = 2 -> LandsatProps(4, 1000)
                 [] k = 3 -> LandsatProps(1000, 4)
                 [] OTHER -> LandsatProps(0, 0),
     bands |-> CASE k = 2 -> [SR_B5 |-> RasterOf("l_nir_gap", 0),
                              SR_B4 |-> RasterOf("l_red_gap", 0),
                              ST_B10 |-> RasterOf("l_thermal", 0)]
                 [] k = 3 -> [SR_B5 |-> RasterOf("masked", 0),
                              SR_B4 |-> RasterOf("masked", 0),
                              ST_B10 |-> RasterOf("masked", 0)]
                 [] OTHER -> [SR_B5 |-> RasterOf("l_nir", 0),
                              SR_B4 |-> RasterOf("l_red", 0),
                              ST_B10 |-> RasterOf("l_thermal", 0)]]

\* the sequences without repetition, of at most n elements of S
SeqsUpTo(S, n) ==
    UNION {{f \in [1..m -> S] : \A i, j \in 1..m : i # j => f[i] # f[j]} : m \in 0..n}

RunSentinel(year) ==
    {[i \in 1..Len(ks) |-> SentinelScene(year, ks[i])] : ks \in SeqsUpTo(RunKinds, RunImages)}

RunLandsat ==
    {[i \in 1..Len(ks) |-> LandsatScene(ks[i])] : ks \in SeqsUpTo(RunKinds, RunImages)}

\* the catalogues of the retrieval harness: every choice of day, coverage
\* and of the two cloud figures a retrieval and its report read, for at most
\* MaxImages scenes (the figure they do not read is held at one value)
LandsatAttrs ==
    {[day |-> d, covers |-> c, props |-> LandsatProps(cc, l)] :
        d \in {20220801, 20220831}, c \in BOOLEAN, cc \in CloudValues, l \in CloudValues}

SentinelAttrs ==
    {[day |-> d, covers |-> c, props |-> SentinelProps(h, cl, 4)] :
        d \in {20220801, 20220831}, c \in BOOLEAN, h \in CloudValues, cl \in CloudValues}

LoopAttrs ==
    {[day |-> d, covers |-> c, props |-> SentinelProps(h, 4, a)] :
        d \in {20170801, 20220801, 20220831}, c \in BOOLEAN,
        h \in CloudValues, a \in CloudValues}

SentinelBands == [B8 |-> RasterOf("nir", 0), B4 |-> RasterOf("red", 0)]

LandsatBands ==
    [SR_B5 |-> RasterOf("l_nir", 0), SR_B4 |-> RasterOf("l_red", 0),
     ST_B10 |-> RasterOf("l_thermal", 0)]

\* the catalogues of at most MaxImages scenes with the given attributes
Catalogues(attrs, bands) ==
    {[i \in 1..Len(f) |->
        [id |-> i, day |-> f[i].day, covers |-> f[i].covers, props |-> f[i].props,
         bands |-> bands]] :
     f \in UNION {[1..m -> attrs] : m \in 0..MaxImages}}

---------------------------------------------------------------------------
(* State of the kernel                                                     *)

landsatVars == <<image_2022, landsat_date, landsat_cloud, landsat_8_data_2022,
                 landsat_ndvi, burgundy_map>>

sentinelVars == <<sentinel_2022, sentinel_2022_data, sentinel_date, sentinel_cloud,
                  sentinel_ndvi, sentinel_map, split>>

loopVars == <<wine_scores, images, ndvi_map, loop>>

harnessVars == <<collection, retrieved>>

\* the statements that send a request to the server and block for its answer
CallSites ==
    {"cell3_date", "cell3_cloud", "cell6_IR", "cell6_nat", "cell8", "cell10_date",
     "cell10_cloud", "cell12_nat", "cell12_IR", "cell14_left", "cell14_right",
     "mean", "date", "layer", "cloud"}

NoLoop == [i |-> 0, year |-> 0, image |-> NullImage, image_data |-> NullImage,
           ndvi |-> NullImage, mean_final |-> None, date |-> <<>>]

NoSplit == [landsat_layer |-> NullImage, sentinel_layer |-> NullImage,
            left_label |-> <<>>, right_label |-> <<>>]

Fresh ==
    /\ pending = {}
    /\ image_2022 = NullImage
    /\ landsat_date = <<>>
    /\ landsat_cloud = -1
    /\ landsat_8_data_2022 = NullImage
    /\ landsat_ndvi = NullImage
    /\ sentinel_2022 = NullImage
    /\ sentinel_2022_data = NullImage
    /\ sentinel_date = <<>>
    /\ sentinel_cloud = -1
    /\ sentinel_ndvi = NullImage
    /\ burgundy_map = <<>>
    /\ sentinel_map = <<>>
    /\ split = NoSplit
    /\ wine_scores = <<>>
    /\ images = <<>>
    /\ ndvi_map = <<>>
    /\ loop = NoLoop
    /\ stdout = <<>>

Init ==
    /\ Fresh
    /\ pc = "cell1"
    /\ collection = [sat |-> "none", images |-> <<>>]
    /\ retrieved = [kind |-> "none"]

\* a statement that runs locally and moves on to the statement at next
Goto(next) == pc' = next /\ UNCHANGED pending

\* a blocking request: sent once, nothing else runs until it is answered
Issue ==
    /\ pc \in CallSites
    /\ pending = {}
    /\ pc = "layer" => ~IsNone(loop.mean_final)
    /\ pending' = pending \cup {pc}
    /\ UNCHANGED <<pc, landsatVars, sentinelVars, loopVars, stdout, harnessVars>>

\* the answer of the request sent at site arrives
Answered(site, next) ==
    /\ pc = site
    /\ site \in pending
    /\ pending' = pending \ {site}
    /\ pc' = next

\* a failure that is caught and the request sent again
RemoteErrorRetried ==
    /\ pending # {}
    /\ pending' = {}
    /\ pc' = pc
    /\ stdout' = Append(stdout, [line |-> "Traceback", at |-> pc])
    /\ UNCHANGED <<landsatVars, sentinelVars, loopVars, harnessVars>>

\* the request fails (server error, network): the exception is not caught,
\* the cell stops and the run with it
RemoteError ==
    /\ pending # {}
    /\ pending' = {}
    /\ pc' = "error"
    /\ stdout' = Append(stdout, [line |-> "Traceback", at |-> pc])
    /\ UNCHANGED <<landsatVars, sentinelVars, loopVars, harnessVars>>

---------------------------------------------------------------------------
(* Visualization: cells 1 to 15                                            *)

\* cell 1: imports, burgundy_map = geemap.Map(...)
Cell1 ==
    /\ pc = "cell1"
    /\ Goto("cell2")
    /\ burgundy_map' = <<>>
    /\ UNCHANGED <<image_2022, landsat_date, landsat_cloud, landsat_8_data_2022,
                   landsat_ndvi, sentinelVars, loopVars, stdout, harnessVars>>

\* cell 2: the Landsat-9 scene of August 2022
Cell2 ==
    /\ pc = "cell2"
    /\ Goto("cell3_date")
    /\ \E cat \in RunLandsat : image_2022' = LandsatRetrieval(cat)
    /\ UNCHANGED <<landsat_date, landsat_cloud, landsat_8_data_2022, landsat_ndvi,
                   burgundy_map, sentinelVars, loopVars, stdout, harnessVars>>

\* cell 3: props.get("IMAGE_DATE").getInfo()
Cell3Date ==
    /\ Answered("cell3_date", "cell3_cloud")
    /\ ~IsNull(image_2022)
    /\ landsat_date' = image_props(image_2022)["IMAGE_DATE"]
    /\ UNCHANGED <<image_2022, landsat_cloud, landsat_8_data_2022, landsat_ndvi,
                   burgundy_map, sentinelVars, loopVars, stdout, harnessVars>>

\* cell 3: props.get("CLOUD_COVER_LAND").getInfo()
Cell3Cloud ==
    /\ Answered("cell3_cloud", "cell3_print")
    /\ ~IsNull(image_2022)
    /\ landsat_cloud' = LandsatCloudFigure(image_2022)
    /\ UNCHANGED <<image_2022, landsat_date, landsat_8_data_2022, landsat_ndvi,
                   burgundy_map, sentinelVars, loopVars, stdout, harnessVars>>

\* cell 3: print(f'The clearest Landsat-9 photo ...')
Cell3Print ==
    /\ pc = "cell3_print"
    /\ Goto("cell4")
    /\ stdout' = Append(stdout, [line |-> "clearest Landsat-9 photo",
                                 date |-> landsat_date, cloud |-> landsat_cloud])
    /\ UNCHANGED <<landsatVars, sentinelVars, loopVars, harnessVars>>

\* cell 4: landsat_8_data_2022 = applyScaleFactors(image_2022)
Cell4 ==
    /\ pc = "cell4"
    /\ Goto("cell6_IR")
    /\ landsat_8_data_2022' = applyScaleFactors(image_2022)
    /\ UNCHANGED <<image_2022, landsat_date, landsat_cloud, landsat_ndvi,
                   burgundy_map, sentinelVars, loopVars, stdout, harnessVars>>

\* cell 6: the false colour layer
Cell6IR ==
    /\ Answered("cell6_IR", "cell6_nat")
    /\ ~IsNull(landsat_8_data_2022)
    /\ burgundy_map' = Append(burgundy_map,
            Layer(landsat_8_data_2022, landsat_IR.properties, <<"2022 ", landsat_IR.name>>))
    /\ UNCHANGED <<image_2022, landsat_date, landsat_cloud, landsat_8_data_2022,
                   landsat_ndvi, sentinelVars, loopVars, stdout, harnessVars>>

\* cell 6: the natural colour layer
Cell6Nat ==
    /\ Answered("cell6_nat", "cell7")
    /\ ~IsNull(landsat_8_data_2022)
    /\ burgundy_map' = Append(burgundy_map,
            Layer(landsat_8_data_2022, landsat_nat.properties, <<"2022 ", landsat_nat.name>>))
    /\ UNCHANGED <<image_2022, landsat_date, landsat_cloud, landsat_8_data_2022,
                   landsat_ndvi, sentinelVars, loopVars, stdout, harnessVars>>

\* cell 7: landsat_NIR, landsat_red, landsat_ndvi
Cell7 ==
    /\ pc = "cell7"
    /\ Goto("cell8")
    /\ landsat_ndvi' = LandsatNdvi(image_2022)
    /\ UNCHANGED <<image_2022, landsat_date, landsat_cloud, landsat_8_data_2022,
                   burgundy_map, sentinelVars, loopVars, stdout, harnessVars>>

\* cell 8: the NDVI layer (the colour bar is drawn locally)
Cell8 ==
    /\ Answered("cell8", "cell9")
    /\ ~IsNull(landsat_ndvi)
    /\ burgundy_map' = Append(burgundy_map,
            Layer(landsat_ndvi, vis_ndvi.properties, <<"Landsat NDVI">>))
    /\ UNCHANGED <<image_2022, landsat_date, landsat_cloud, landsat_8_data_2022,
                   landsat_ndvi, sentinelVars, loopVars, stdout, harnessVars>>

\* cell 9: the Sentinel-2 scene of August 2022 and its reflectances
Cell9 ==
    /\ pc = "cell9"
    /\ Goto("cell10_date")
    /\ \E cat \in RunSentinel(2022) :
          /\ sentinel_2022' = SentinelRetrieval(cat)
          /\ sentinel_2022_data' = SentinelData(SentinelRetrieval(cat))
    /\ UNCHANGED <<sentinel_date, sentinel_cloud, sentinel_ndvi, sentinel_map, split,
                   landsatVars, loopVars, stdout, harnessVars>>

\* cell 10: props2.get("IMAGE_DATE").getInfo()
Cell10Date ==
    /\ Answered("cell10_date", "cell10_cloud")
    /\ ~IsNull(sentinel_2022)
    /\ sentinel_date' = image_props(sentinel_2022)["IMAGE_DATE"]
    /\ UNCHANGED <<sentinel_2022, sentinel_2022_data, sentinel_cloud, sentinel_ndvi,
                   sentinel_map, split, landsatVars, loopVars, stdout, harnessVars>>

\* cell 10: round(props2.get("CLOUDY_PIXEL_PERCENTAGE").getInfo(), 2)
Cell10Cloud ==
    /\ Answered("cell10_cloud", "cell10_print")
    /\ ~IsNull(sentinel_2022)
    /\ sentinel_cloud' = SentinelCloudFigure(sentinel_2022)
    /\ UNCHANGED <<sentinel_2022, sentinel_2022_data, sentinel_date, sentinel_ndvi,
                   sentinel_map, split, landsatVars, loopVars, stdout, harnessVars>>

\* cell 10: print(f'The clearest Sentinel photo ...')
Cell10Print ==
    /\ pc = "cell10_print"
    /\ Goto("cell12_nat")
    /\ stdout' = Append(stdout, [line |-> "clearest Sentinel photo",
                                 date |-> sentinel_date, cloud |-> sentinel_cloud])
    /\ UNCHANGED <<landsatVars, sentinelVars, loopVars, harnessVars>>

\* cell 12: sentinel_map and its natural colour layer
Cell12Nat ==
    /\ Answered("cell12_nat", "cell12_IR")
    /\ ~IsNull(sentinel_2022_data)
    /\ sentinel_map' = <<Layer(sentinel_2022_data, sentinel_nat.properties,
                               <<sentinel_nat.name>>)>>
    /\ UNCHANGED <<sentinel_2022, sentinel_2022_data, sentinel_date, sentinel_cloud,
                   sentinel_ndvi, split, landsatVars, loopVars, stdout, harnessVars>>

\* cell 12: the false colour layer
Cell12IR ==
    /\ Answered("cell12_IR", "cell13")
    /\ ~IsNull(sentinel_2022_data)
    /\ sentinel_map' = Append(sentinel_map,
            Layer(sentinel_2022_data, sentinel_IR.properties, <<sentinel_IR.name>>))
    /\ UNCHANGED <<sentinel_2022, sentinel_2022_data, sentinel_date, sentinel_cloud,
                   sentinel_ndvi, split, landsatVars, loopVars, stdout, harnessVars>>

\* cell 13: sentinel_NIR, sentinel_red, sentinel_ndvi
Cell13 ==
    /\ pc = "cell13"
    /\ Goto("cell14_left")
    /\ sentinel_ndvi' = SentinelNdvi(sentinel_2022_data)
    /\ UNCHANGED <<sentinel_2022, sentinel_2022_data, sentinel_date, sentinel_cloud,
                   sentinel_map, split, landsatVars, loopVars, stdout, harnessVars>>

\* cell 14: landsat_layer = geemap.ee_tile_layer(landsat_ndvi, ...)
Cell14Left ==
    /\ Answered("cell14_left", "cell14_right")
    /\ ~IsNull(landsat_ndvi)
    /\ split' = [split EXCEPT !.landsat_layer =
                    Layer(landsat_ndvi, vis_ndvi.properties, <<"Landsat NDVI">>)]
    /\ UNCHANGED <<sentinel_2022, sentinel_2022_data, sentinel_date, sentinel_cloud,
                   sentinel_ndvi, sentinel_map, landsatVars, loopVars, stdout,
                   harnessVars>>

\* cell 14: sentinel_layer = geemap.ee_tile_layer(sentinel_ndvi, ...)
Cell14Right ==
    /\ Answered("cell14_right", "cell14_split")
    /\ ~IsNull(sentinel_ndvi)
    /\ split' = [split EXCEPT !.sentinel_layer =
                    Layer(sentinel_ndvi, vis_ndvi.properties, <<"Sentinel NDVI">>)]
    /\ UNCHANGED <<sentinel_2022, sentinel_2022_data, sentinel_date, sentinel_cloud,
                   sentinel_ndvi, sentinel_map, landsatVars, loopVars, stdout,
                   harnessVars>>

\* cells 14 and 15: split.split_map(...) with the two dates as labels
Cell14Split ==
    /\ pc = "cell14_split"
    /\ Goto("cell38")
    /\ split' = [split EXCEPT !.left_label = <<"Landsat 9 NDVI">> \o landsat_date,
                              !.right_label = <<"Sentinel-2 NDVI">> \o sentinel_date]
    /\ UNCHANGED <<sentinel_2022, sentinel_2022_data, sentinel_date, sentinel_cloud,
                   sentinel_ndvi, sentinel_map, landsatVars, loopVars, stdout,
                   harnessVars>>

---------------------------------------------------------------------------
(* Correlation of NDVI to vintage scores: cells 38 to 40                   *)

\* an assignment that adds a row for the year instead of updating its row
SetNewRow(table, year, col, value) ==
    Append(table, [Year |-> year, WineScore |-> None, MeanNDVI |-> value,
                   PhotoDate |-> <<>>])

\* an assignment that ignores the year and writes every row
SetEveryRow(table, year, col, value) ==
    [r \in DOMAIN table |-> [table[r] EXCEPT ![col] = value]]

\* wine_scores.loc[wine_scores['Year'] == year, col] = value
SetWhereYear(table, year, col, value) ==
    [r \in DOMAIN table |->
        IF table[r].Year = year THEN [table[r] EXCEPT ![col] = value] ELSE table[r]]

\* d[key] = value of a Python dict
SetItem(d, key, value) ==
    [k \in DOMAIN d \cup {key} |-> IF k = key THEN value ELSE d[k]]

\* f'{date} - Mean NDVI: {round(mean_final, 2)}'
LayerName(date, mean_final) == date \o <<" - Mean NDVI: ", Round2(mean_final)>>

\* the value stored under str(year): {'mean ndvi': ..., 'image': ...}
Entry(mean_final, ndvi) == [mean_ndvi |-> mean_final, image |-> ndvi]

\* cell 38: scores, wine_scores = pandas.DataFrame(scores, ...)
Cell38 ==
    /\ pc = "cell38"
    /\ Goto("cell39")
    /\ wine_scores' = scores
    /\ UNCHANGED <<images, ndvi_map, loop, landsatVars, sentinelVars, stdout,
                   harnessVars>>

\* cell 39: years, images = {}, ndvi_map = geemap.Map(...)
Cell39 ==
    /\ pc = "cell39"
    /\ Goto("for")
    /\ images' = <<>>
    /\ ndvi_map' = <<>>
    /\ loop' = NoLoop
    /\ UNCHANGED <<wine_scores, landsatVars, sentinelVars, stdout, harnessVars>>

\* a loop that takes the years from the last to the first
ForDescending ==
    /\ pc = "for"
    /\ UNCHANGED pending
    /\ IF loop.i < Len(years)
       THEN /\ loop' = [loop EXCEPT !.i = loop.i + 1,
                                    !.year = years[Len(years) - loop.i]]
            /\ pc' = "image"
       ELSE /\ pc' = "colorbar"
            /\ UNCHANGED loop
    /\ UNCHANGED <<wine_scores, images, ndvi_map, landsatVars, sentinelVars, stdout,
                   harnessVars>>

\* for year in years: the next year, or the end of the loop
For ==
    /\ pc = "for"
    /\ UNCHANGED pending
    /\ IF loop.i < Len(years)
       THEN /\ loop' = [loop EXCEPT !.i = loop.i + 1, !.year = years[loop.i + 1]]
            /\ pc' = "image"
       ELSE /\ pc' = "colorbar"
            /\ UNCHANGED loop
    /\ UNCHANGED <<wine_scores, images, ndvi_map, landsatVars, sentinelVars, stdout,
                   harnessVars>>

\* image, image_data, NIR, red, ndvi, mean_ndvi of the iteration
LoopImage ==
    /\ pc = "image"
    /\ Goto("mean")
    /\ \E cat \in RunSentinel(loop.year) :
          loop' = [loop EXCEPT
                     !.image = LoopRetrieval(cat, loop.year),
                     !.image_data = SentinelData(LoopRetrieval(cat, loop.year)),
                     !.ndvi = LoopNdvi(SentinelData(LoopRetrieval(cat, loop.year)))]
    /\ UNCHANGED <<wine_scores, images, ndvi_map, landsatVars, sentinelVars, stdout,
                   harnessVars>>

\* mean_final = mean_ndvi.get("B8").getInfo()
LoopMeanFinal ==
    /\ Answered("mean", "date")
    /\ ~IsNull(loop.ndvi)
    /\ LoopMean(loop.ndvi) # Missing
    /\ loop' = [loop EXCEPT !.mean_final = LoopMean(loop.ndvi)]
    /\ UNCHANGED <<wine_scores, images, ndvi_map, landsatVars, sentinelVars, stdout,
                   harnessVars>>

\* image_info = geemap.image_props(image); date = ...getInfo()
LoopDate ==
    /\ Answered("date", "table")
    /\ ~IsNull(loop.image)
    /\ loop' = [loop EXCEPT !.date = image_props(loop.image)["IMAGE_DATE"]]
    /\ UNCHANGED <<wine_scores, images, ndvi_map, landsatVars, sentinelVars, stdout,
                   harnessVars>>

\* the two assignments to the row of the year
LoopTable ==
    /\ pc = "table"
    /\ Goto("layer")
    /\ wine_scores' = SetWhereYear(SetWhereYear(wine_scores, loop.year, "MeanNDVI",
                                                loop.mean_final),
                                   loop.year, "PhotoDate", loop.date)
    /\ UNCHANGED <<images, ndvi_map, loop, landsatVars, sentinelVars, stdout,
                   harnessVars>>

\* round(mean_final, 2) of a None mean: TypeError, not caught
LoopTypeError ==
    /\ pc = "layer"
    /\ pending = {}
    /\ IsNone(loop.mean_final)
    /\ pc' = "error"
    /\ stdout' = Append(stdout, [line |-> "Traceback", at |-> pc])
    /\ UNCHANGED <<pending, landsatVars, sentinelVars, loopVars, harnessVars>>

\* ndvi_map.add_ee_layer(ndvi, ...)
LoopLayer ==
    /\ Answered("layer", "cloud")
    /\ ~IsNull(loop.ndvi)
    /\ ndvi_map' = Append(ndvi_map,
            Layer(loop.ndvi, vis_ndvi.properties, LayerName(loop.date, loop.mean_final)))
    /\ UNCHANGED <<wine_scores, images, loop, landsatVars, sentinelVars, stdout,
                   harnessVars>>

\* print(f'Cloud coverage for the best photo from August {year} was ...%')
LoopCloud ==
    /\ Answered("cloud", "dict")
    /\ ~IsNull(loop.image)
    /\ stdout' = Append(stdout, [line |-> "best photo from August",
                                 year |-> loop.year,
                                 cloud |-> LoopCloudFigure(loop.image)])
    /\ UNCHANGED <<landsatVars, sentinelVars, loopVars, harnessVars>>

\* images[str(year)] = {'mean ndvi': mean_final, 'image': ndvi}
LoopDict ==
    /\ pc = "dict"
    /\ Goto("for")
    /\ images' = SetItem(images, Str(loop.year), Entry(loop.mean_final, loop.ndvi))
    /\ UNCHANGED <<wine_scores, ndvi_map, loop, landsatVars, sentinelVars, stdout,
                   harnessVars>>

\* the cell after the loop: the colour bar of ndvi_map (drawn locally)
Colorbar ==
    /\ pc = "colorbar"
    /\ Goto("cell40")
    /\ UNCHANGED <<landsatVars, sentinelVars, loopVars, stdout, harnessVars>>

\* cell 40: the table is shown
Cell40 ==
    /\ pc = "cell40"
    /\ Goto("done")
    /\ stdout' = Append(stdout, [line |-> "wine_scores", table |-> wine_scores])
    /\ UNCHANGED <<landsatVars, sentinelVars, loopVars, harnessVars>>

Next ==
    \/ Issue \/ RemoteError
    \/ Cell1 \/ Cell2 \/ Cell3Date \/ Cell3Cloud \/ Cell3Print \/ Cell4
    \/ Cell6IR \/ Cell6Nat \/ Cell7 \/ Cell8
    \/ Cell9 \/ Cell10Date \/ Cell10Cloud \/ Cell10Print
    \/ Cell12Nat \/ Cell12IR \/ Cell13 \/ Cell14Left \/ Cell14Right \/ Cell14Split
    \/ Cell38 \/ Cell39 \/ For \/ LoopImage \/ LoopMeanFinal \/ LoopDate \/ LoopTable
    \/ LoopTypeError \/ LoopLayer \/ LoopCloud \/ LoopDict \/ Colorbar \/ Cell40

Spec == Init /\ [][Next]_vars

---------------------------------------------------------------------------
(* The three retrievals and their cloud reports, applied to every          *)
(* catalogue of at most MaxImages scenes                                   *)

InitRetrieve ==
    /\ Fresh
    /\ pc = "retrieve"
    /\ collection \in
          {[sat |-> "landsat", images |-> c] : c \in Catalogues(LandsatAttrs, LandsatBands)}
          \cup {[sat |-> "sentinel", images |-> c] :
                    c \in Catalogues(SentinelAttrs, SentinelBands)}
          \cup {[sat |-> "loop", images |-> c] :
                    c \in Catalogues(LoopAttrs, SentinelBands)}
    /\ retrieved = [kind |-> "none"]

\* what a retrieval found and the cloud figure its report prints
Found(kind, year, image, figure) ==
    [kind |-> kind, year |-> year, image |-> image, figure |-> figure]

\* cells 2 and 3
RetrieveLandsat ==
    /\ pc = "retrieve"
    /\ collection.sat = "landsat"
    /\ LET img == LandsatRetrieval(collection.images)
       IN  retrieved' = Found("landsat", 2022, img,
                              IF IsNull(img) THEN -1 ELSE LandsatCloudFigure(img))
    /\ pc' = "retrieved"
    /\ UNCHANGED <<pending, landsatVars, sentinelVars, loopVars, stdout, collection>>

\* cells 9 and 10
RetrieveSentinel ==
    /\ pc = "retrieve"
    /\ collection.sat = "sentinel"
    /\ LET img == SentinelRetrieval(collection.images)
       IN  retrieved' = Found("sentinel", 2022, img,
                              IF IsNull(img) THEN -1 ELSE SentinelCloudFigure(img))
    /\ pc' = "retrieved"
    /\ UNCHANGED <<pending, landsatVars, sentinelVars, loopVars, stdout, collection>>

\* cell 39, one iteration
RetrieveLoop ==
    /\ pc = "retrieve"
    /\ collection.sat = "loop"
    /\ \E i \in DOMAIN years :
          LET img == LoopRetrieval(collection.images, years[i])
          IN  retrieved' = Found("loop", years[i], img,
                                 IF IsNull(img) THEN -1 ELSE LoopCloudFigure(img))
    /\ pc' = "retrieved"
    /\ UNCHANGED <<pending, landsatVars, sentinelVars, loopVars, stdout, collection>>

NextRetrieve == RetrieveLandsat \/ RetrieveSentinel \/ RetrieveLoop

SpecRetrieve == InitRetrieve /\ [][NextRetrieve]_vars

---------------------------------------------------------------------------
(* Properties of the retrievals (checked under SpecRetrieve)               *)

\* the property a retrieval sorts by
SortKeyOf(kind) ==
    IF kind = "landsat" THEN "CLOUD_COVER" ELSE "HIGH_PROBA_CLOUDS_PERCENTAGE"

\* the scenes of the catalogue inside the date window the retrieval passes
\* to filterDate (from the 1st, up to the 31st) that cover study_area
Candidates ==
    {i \in DOMAIN collection.images :
        /\ collection.images[i].covers
        /\ retrieved.year * 10000 + 801 <= collection.images[i].day
        /\ collection.images[i].day < retrieved.year * 10000 + 831}

\* the figure the report of a retrieval would print for scene i
PrintedFor(kind, i) ==
    LET pr == collection.images[i].props
    IN  CASE kind = "landsat" -> pr.CLOUD_COVER_LAND
          [] kind = "sentinel" -> (pr.CLOUDY_PIXEL_PERCENTAGE + 5) \div 10
          [] kind = "loop" -> (pr.CLOUD_COVERAGE_ASSESSMENT + 5) \div 10

\* C1: the image every retrieval selects (Landsat 2022, Sentinel 2022, each
\* year of the loop) is a scene of the date window that covers the study
\* point, and no other such scene has a strictly lower value of the cloud
\* property the retrieval sorts by; it selects none only when there is none.
C1_LeastClouds ==
    retrieved.kind # "none" =>
        IF IsNull(retrieved.image) THEN Candidates = {}
        ELSE /\ retrieved.image.id \in Candidates
             /\ \A i \in Candidates :
                   ~(collection.images[i].props[SortKeyOf(retrieved.kind)]
                        < retrieved.image.props[SortKeyOf(retrieved.kind)])

\* a loop retrieval that had to choose: the selected scene comes after a
\* cloudier candidate in the catalogue
C1_Witness ==
    /\ retrieved.kind = "loop"
    /\ ~IsNull(retrieved.image)
    /\ \E i \in Candidates :
          /\ i < retrieved.image.id
          /\ collection.images[i].props.HIGH_PROBA_CLOUDS_PERCENTAGE
                > retrieved.image.props.HIGH_PROBA_CLOUDS_PERCENTAGE

\* C2: the photo reported as the clearest of its period has a printed
\* cloud-cover figure no greater than that of any other candidate photo of
\* the period (Landsat report, Sentinel report, each per-year report).
C2_ReportedClearest ==
    (retrieved.kind # "none" /\ ~IsNull(retrieved.image)) =>
        \A i \in Candidates : retrieved.figure <= PrintedFor(retrieved.kind, i)

\* the same, one report at a time
C2_Landsat == retrieved.kind = "landsat" => C2_ReportedClearest

C2_Sentinel == retrieved.kind = "sentinel" => C2_ReportedClearest

C2_Loop == retrieved.kind = "loop" => C2_ReportedClearest

---------------------------------------------------------------------------
(* Properties of a notebook run (checked under Spec)                       *)

\* v is (nir - red) / (nir + red), or masked where an input is masked
IsNdvi(v, nir, red) ==
    IF IsNone(nir) \/ IsNone(red) THEN IsNone(v)
    ELSE v = Norm(nir[1] * red[2] - red[1] * nir[2], nir[1] * red[2] + red[1] * nir[2])

\* img has the single band name, the NDVI of the bands nir and red of src
IsNdviImage(img, name, src, nir, red) ==
    /\ DOMAIN img.bands = {name}
    /\ \A p \in Pixels : IsNdvi(img.bands[name][p], src.bands[nir][p], src.bands[red][p])

\* C3: every NDVI image the notebook computes has at every pixel the value
\* (NIR - Red) / (NIR + Red) of the near-infrared and red bands of the same
\* selected image: SR_B5 and SR_B4 of image_2022, B8 and B4 of sentinel_2022
\* and of the image of each year of the loop.
C3_NdviFormula ==
    /\ ~IsNull(landsat_ndvi) =>
          IsNdviImage(landsat_ndvi, "Landsat NDVI", image_2022, "SR_B5", "SR_B4")
    /\ ~IsNull(sentinel_ndvi) =>
          IsNdviImage(sentinel_ndvi, "Sentinel NDVI", sentinel_2022, "B8", "B4")
    /\ ~IsNull(loop.ndvi) => IsNdviImage(loop.ndvi, "B8", loop.image, "B8", "B4")

\* the three NDVI images exist, the loop's one with a masked pixel inside
\* the polygon next to a pixel that has a value
C3_Witness ==
    /\ pc = "dict"
    /\ ~IsNull(landsat_ndvi)
    /\ ~IsNull(sentinel_ndvi)
    /\ ~IsNull(loop.ndvi)
    /\ \E p, q \in clip_area :
          IsNone(loop.ndvi.bands["B8"][p]) /\ ~IsNone(loop.ndvi.bands["B8"][q])

\* v is the surface reflectance of the digital number dn
IsScaled(v, dn) == IF IsNone(dn) THEN IsNone(v) ELSE v = Norm(11 * dn[1] - 80000, 400000)

\* C4: every Landsat-derived product (the natural-colour layer, the
\* false-colour layer, the Landsat NDVI) is computed from the output of
\* applyScaleFactors, never from the unscaled image.
C4_ScaledBeforeUse ==
    /\ ~IsNull(landsat_8_data_2022) =>
          \A p \in Pixels :
             /\ IsScaled(landsat_8_data_2022.bands["SR_B5"][p], image_2022.bands["SR_B5"][p])
             /\ IsScaled(landsat_8_data_2022.bands["SR_B4"][p], image_2022.bands["SR_B4"][p])
    /\ \A i \in DOMAIN burgundy_map :
          burgundy_map[i].name # <<"Landsat NDVI">> =>
              burgundy_map[i].ee_object = landsat_8_data_2022
    /\ ~IsNull(landsat_ndvi) =>
          IsNdviImage(landsat_ndvi, "Landsat NDVI", landsat_8_data_2022, "SR_B5", "SR_B4")

\* the part of C4 about the two colour layers
C4_LayersScaled ==
    /\ ~IsNull(landsat_8_data_2022) =>
          \A p \in Pixels :
             /\ IsScaled(landsat_8_data_2022.bands["SR_B5"][p], image_2022.bands["SR_B5"][p])
             /\ IsScaled(landsat_8_data_2022.bands["SR_B4"][p], image_2022.bands["SR_B4"][p])
    /\ \A i \in DOMAIN burgundy_map :
          burgundy_map[i].name # <<"Landsat NDVI">> =>
              burgundy_map[i].ee_object = landsat_8_data_2022

LoopDone == pc \in {"colorbar", "cell40", "done"}

RowsOf(year) == {r \in DOMAIN wine_scores : wine_scores[r].Year = year}

\* C5: when the loop has finished, for every year of the list exactly one
\* row has that year, and it holds the mean NDVI and the photo date of the
\* image selected for the year; every row belongs to a year of the list; no
\* row keeps its initial Mean NDVI of None or Photo Date of ''.
C5_RowsFilled ==
    LoopDone =>
        /\ \A r \in DOMAIN wine_scores : \E i \in DOMAIN years : wine_scores[r].Year = years[i]
        /\ \A i \in DOMAIN years :
              /\ Cardinality(RowsOf(years[i])) = 1
              /\ \A r \in RowsOf(years[i]) :
                    /\ ~IsNone(wine_scores[r].MeanNDVI)
                    /\ wine_scores[r].MeanNDVI = images[Str(years[i])].mean_ndvi
                    /\ wine_scores[r].PhotoDate # <<>>
                    /\ wine_scores[r].PhotoDate = SubSeq(ndvi_map[i].name, 1, 10)
                    /\ ParseDate(wine_scores[r].PhotoDate) = ndvi_map[i].ee_object.day

\* the loop has finished and two years got different values
C5_Witness ==
    /\ pc = "done"
    /\ wine_scores[1].MeanNDVI # wine_scores[2].MeanNDVI
    /\ wine_scores[1].PhotoDate # wine_scores[2].PhotoDate

\* C6: once created, the table has exactly six rows, one per year 2017 to
\* 2022 with no duplicate Year, in every state: no iteration adds, removes
\* or duplicates a row.
C6_SixRows ==
    wine_scores # <<>> =>
        /\ Len(wine_scores) = 6
        /\ \A r \in 1..6 : wine_scores[r].Year = 2016 + r

\* the fourth iteration has written its row
C6_Witness ==
    /\ pc = "layer"
    /\ loop.i = 4
    /\ ~IsNone(wine_scores[4].MeanNDVI)
    /\ IsNone(wine_scores[5].MeanNDVI)

\* C7: after the loop the dictionary has exactly one entry per iterated
\* year, keyed by that year, and the value stored under a year is the NDVI
\* image computed for that year.
C7_DictOfImages ==
    LoopDone =>
        /\ DOMAIN images = {Str(years[i]) : i \in DOMAIN years}
        /\ \A i \in DOMAIN years : images[Str(years[i])] = ndvi_map[i].ee_object

\* what holds of the dictionary: the NDVI image is a field of the entry
C7_DictOfEntries ==
    LoopDone =>
        /\ DOMAIN images = {Str(years[i]) : i \in DOMAIN years}
        /\ \A i \in DOMAIN years : images[Str(years[i])].image = ndvi_map[i].ee_object

\* an exception has been raised
Failed == \E k \in DOMAIN stdout : stdout[k].line = "Traceback"

\* C8: when a remote call fails, the exception is not caught: the run stops
\* where it is (inside the loop: at the year of the failing call), with the
\* table rows, dictionary entries and map layers of the earlier years as
\* they were written; nothing runs afterwards, so no later year is
\* processed and the call is not sent again.
C8_FailureStopsRun ==
    [][/\ ~Failed
       /\ Failed' =>
             /\ pc' = "error"
             /\ pending' = {}
             /\ UNCHANGED <<wine_scores, images, ndvi_map, loop>>]_vars

\* the call of the third year has failed after two years were written
C8_Witness ==
    /\ pc = "error"
    /\ Failed
    /\ loop.i = 3
    /\ DOMAIN images = {Str(2017), Str(2018)}
    /\ Len(ndvi_map) = 2
    /\ ~IsNone(wine_scores[2].MeanNDVI)
    /\ IsNone(wine_scores[3].MeanNDVI)

\* C9: the loop is sequential. At most one remote request is outstanding,
\* and it is the one of the statement being executed; the loop variable
\* only changes at the head of the loop, to the next year in ascending
\* order 2017..2022, and only when the previous iteration has completed
\* all its statements (its layer is on the map, its entry in the
\* dictionary) and no request is outstanding.
C9_Sequential ==
    /\ [](/\ Cardinality(pending) <= 1
          /\ pending \subseteq {pc}
          /\ loop.i >= 1 => loop.year = 2016 + loop.i)
    /\ [][loop'.i # loop.i =>
             \/ loop' = NoLoop
             \/ /\ pc = "for"
                /\ pending = {}
                /\ loop'.i = loop.i + 1
                /\ loop'.year = years[loop.i + 1]
                /\ Len(ndvi_map) = loop.i
                /\ DOMAIN images = {Str(years[j]) : j \in 1..loop.i}]_vars

\* the second year waits for the answer of its first request
C9_Witness ==
    /\ pc = "mean"
    /\ pending = {"mean"}
    /\ loop.i = 2
    /\ loop.year = 2018

\* a mean NDVI in millionths
Micro(r) == r[1] * (1000000 \div r[2])

RowOf(year) == wine_scores[CHOOSE r \in DOMAIN wine_scores : wine_scores[r].Year = year]

\* the run has finished and selected for every year the scene of the
\* notebook's recorded run
RecordedRun ==
    /\ pc = "done"
    /\ \A i \in DOMAIN ndvi_map :
          /\ ndvi_map[i].ee_object.id = 1
          /\ ndvi_map[i].ee_object.day = RecordedOf(years[i]).day

\* year has the n-th highest wine score of the rows that list a score
ScoreRank(year, n) ==
    /\ ~IsNone(RowOf(year).WineScore)
    /\ Cardinality({r \in DOMAIN wine_scores :
                       /\ ~IsNone(wine_scores[r].WineScore)
                       /\ wine_scores[r].WineScore[1] > RowOf(year).WineScore[1]}) = n - 1

---------------------------------------------------------------------------
(* The date window of the loop (checked under SpecRetrieve)                *)

\* the scenes of the catalogue acquired in August of the retrieval's year,
\* from the 1st to the 31st with both days included, that cover study_area
AugustCandidates ==
    {i \in DOMAIN collection.images :
        /\ collection.images[i].covers
        /\ retrieved.year * 10000 + 801 <= collection.images[i].day
        /\ collection.images[i].day <= retrieved.year * 10000 + 831}

\* C11: for every iterated year the candidates of the loop are exactly the
\* scenes acquired from 1 August to 31 August of the year, both days
\* included, that cover the study point: the image the loop selects is
\* chosen among all of them (none is selected only when there is none, and
\* none of them has a lower value of the sorted property), and its date is
\* a date in August of the year.
C11_WholeAugust ==
    retrieved.kind = "loop" =>
        IF IsNull(retrieved.image) THEN AugustCandidates = {}
        ELSE /\ retrieved.image.id \in AugustCandidates
             /\ \A i \in AugustCandidates :
                   ~(collection.images[i].props.HIGH_PROBA_CLOUDS_PERCENTAGE
                        < retrieved.image.props.HIGH_PROBA_CLOUDS_PERCENTAGE)

\* the part of C11 about the photo date: the selected image is of August
C11_DateInAugust ==
    (retrieved.kind = "loop" /\ ~IsNull(retrieved.image)) =>
        /\ retrieved.year * 10000 + 801 <= retrieved.image.day
        /\ retrieved.image.day <= retrieved.year * 10000 + 831

---------------------------------------------------------------------------
(* Clipping (checked under Spec)                                           *)

\* img is the catalogue scene restricted to the polygon: the same scene,
\* its pixels kept inside clip_area and masked outside
Restricted(img, scene) ==
    /\ img.id = scene.id
    /\ img.day = scene.day
    /\ img.props = scene.props
    /\ DOMAIN img.bands = DOMAIN scene.bands
    /\ \A b \in DOMAIN scene.bands : \A p \in Pixels :
          img.bands[b][p] = IF p \in clip_area THEN scene.bands[b][p] ELSE None

\* img, computed from the retrieved image src, has no value outside the polygon
Within(img, src) ==
    IsNull(img) \/
        /\ ~IsNull(src)
        /\ img.id = src.id
        /\ \A b \in DOMAIN img.bands : \A p \in Pixels \ clip_area : IsNone(img.bands[b][p])

\* the layer (or the empty slot of a layer) shows an image computed from src
LayerWithin(layer, src) == IsNull(layer) \/ Within(layer.ee_object, src)

\* C12: clip is applied to the one image a retrieval has selected: each
\* retrieved image (image_2022, sentinel_2022, the loop's image) is a scene
\* of the collection, unchanged but for being restricted to the clip
\* polygon, and everything computed from it or displayed (scaled data,
\* NDVI images, map layers, split-map layers, dictionary entries) is
\* computed from the restricted image and has no value outside the polygon.
C12_ClippedBeforeUse ==
    /\ ~IsNull(image_2022) => Restricted(image_2022, LandsatScene(image_2022.id))
    /\ ~IsNull(sentinel_2022) =>
          Restricted(sentinel_2022, SentinelScene(2022, sentinel_2022.id))
    /\ ~IsNull(loop.image) =>
          Restricted(loop.image, SentinelScene(loop.image.day \div 10000, loop.image.id))
    /\ Within(landsat_8_data_2022, image_2022)
    /\ Within(landsat_ndvi, image_2022)
    /\ Within(sentinel_2022_data, sentinel_2022)
    /\ Within(sentinel_ndvi, sentinel_2022)
    /\ Within(loop.image_data, loop.image)
    /\ Within(loop.ndvi, loop.image)
    /\ \A i \in DOMAIN burgundy_map : LayerWithin(burgundy_map[i], image_2022)
    /\ \A i \in DOMAIN sentinel_map : LayerWithin(sentinel_map[i], sentinel_2022)
    /\ LayerWithin(split.landsat_layer, image_2022)
    /\ LayerWithin(split.sentinel_layer, sentinel_2022)
    /\ \A i \in DOMAIN ndvi_map :
          \A p \in Pixels \ clip_area : IsNone(ndvi_map[i].ee_object.bands["B8"][p])
    /\ \A k \in DOMAIN images :
          \A p \in Pixels \ clip_area : IsNone(images[k].image.bands["B8"][p])

\* the loop has used a scene that has values outside the polygon, and the
\* Landsat and Sentinel maps show their layers
C12_Witness ==
    /\ pc = "dict"
    /\ ~IsNull(loop.image)
    /\ \E p \in Pixels \ clip_area :
          ~IsNone(SentinelScene(loop.image.day \div 10000, loop.image.id).bands["B8"][p])
    /\ Len(burgundy_map) = 3
    /\ Len(sentinel_map) = 2
    /\ ~IsNull(split.landsat_layer)
    /\ Len(ndvi_map) >= 1

---------------------------------------------------------------------------
(* The mean NDVI of a year (checked under Spec)                            *)

\* the pixels of the polygon at which the raster has a value
Valued(raster) == {p \in clip_area : ~IsNone(raster[p])}

\* the sum of the raster over the pixels of S
RECURSIVE Total(_, _)
Total(raster, S) ==
    IF S = {} THEN <<0, 1>>
    ELSE LET p == CHOOSE q \in S : TRUE
         IN  RAdd(raster[p], Total(raster, S \ {p}))

\* m is the mean of the raster over the pixels of the polygon that have a
\* value: m times their number is their sum
IsMeanOf(m, raster) ==
    IF Valued(raster) = {} THEN IsNone(m)
    ELSE /\ ~IsNone(m)
         /\ RMul(m, <<Cardinality(Valued(raster)), 1>>) = Total(raster, Valued(raster))

\* k hundredths is m rounded to two decimals
IsRounded(k, m) ==
    /\ 2 * (100 * m[1] - k * m[2]) <= m[2]
    /\ 2 * (k * m[2] - 100 * m[1]) <= m[2]

\* C13: the Mean NDVI of a year is the mean, over the clip polygon, of the
\* pixel values of the year's NDVI image (whose band is named "B8"), not
\* of the near-infrared band; the same value is in the table row of the
\* year, rounded in the name of the year's layer, and in the dictionary
\* entry of the year.
C13_MeanOfNdvi ==
    /\ (pc \in {"date", "table", "layer", "cloud", "dict"} /\ ~IsNull(loop.ndvi)) =>
          /\ IsNdviImage(loop.ndvi, "B8", loop.image, "B8", "B4")
          /\ IsMeanOf(loop.mean_final, loop.ndvi.bands["B8"])
    /\ pc \in {"layer", "cloud", "dict"} => RowOf(loop.year).MeanNDVI = loop.mean_final
    /\ \A i \in DOMAIN years :
          Str(years[i]) \in DOMAIN images =>
              LET e == images[Str(years[i])]
              IN  /\ IsMeanOf(e.mean_ndvi, e.image.bands["B8"])
                  /\ RowOf(years[i]).MeanNDVI = e.mean_ndvi
                  /\ ndvi_map[i].ee_object = e.image
                  /\ IsRounded(ndvi_map[i].name[Len(ndvi_map[i].name)], e.mean_ndvi)

\* a year whose image has a masked pixel in the polygon is stored, its mean
\* NDVI different from the mean of its near-infrared band
C13_Witness ==
    /\ pc = "for"
    /\ Str(2017) \in DOMAIN images
    /\ Valued(images[Str(2017)].image.bands["B8"]) # clip_area
    /\ Valued(images[Str(2017)].image.bands["B8"]) # {}
    /\ ~IsMeanOf(images[Str(2017)].mean_ndvi, loop.image_data.bands["B8"])
    /\ loop.i = 1

====
